---- MODULE Spec2Model ----
(***************************************************************************)
(* fit_analyze_gui_v4.py: one run of main() over one FIT file.             *)
(*                                                                         *)
(* The run is a pipeline: parse_fit_records, compute_metrics,              *)
(* export_timeseries_csv, export_summary_json.  The decoded "record"       *)
(* messages of the file and the three numeric inputs are chosen in the     *)
(* initial state; every later state is a function of them.                 *)
(*                                                                         *)
(* Numbers.  A float is a cell [k, n, d]: k = "num" is the rational n/d in *)
(* lowest terms (d > 0), k = "nan" is NaN, k = "none" is Python's None.    *)
(* Every message carries a timestamp, in whole seconds since the start of  *)
(* the recording.                                                          *)
(***************************************************************************)
EXTENDS Integers, Sequences, FiniteSets, TLC

\* Longest list of record messages in the input file.
MaxLen == 3

----------------------------------------------------------------------------
\* Rational arithmetic with NaN, as float arithmetic behaves on the values used.

Abs(x) == IF x < 0 THEN -x ELSE x

RECURSIVE GCD(_, _)
GCD(a, b) == IF b = 0 THEN a ELSE GCD(b, a % b)

None == [k |-> "none", n |-> 0, d |-> 1]

NaN == [k |-> "nan", n |-> 0, d |-> 1]

Rat(n, d) ==
    LET g == GCD(Abs(n), Abs(d))
        s == IF d < 0 THEN -1 ELSE 1
    IN [k |-> "num", n |-> (s * n) \div g, d |-> (s * d) \div g]

Num(n) == Rat(n, 1)

IsNum(c) == c.k = "num"

\* pandas isna(): None and NaN are both missing.
IsNa(c) == c.k # "num"

\* Python truthiness of a float-or-None: None and 0.0 are false, NaN is true.
Truthy(c) == c.k = "nan" \/ (c.k = "num" /\ c.n # 0)

\* `x or y`
Or(x, y) == IF Truthy(x) THEN x ELSE y

FAdd(a, b) == IF IsNum(a) /\ IsNum(b) THEN Rat(a.n * b.d + b.n * a.d, a.d * b.d) ELSE NaN

FSub(a, b) == IF IsNum(a) /\ IsNum(b) THEN Rat(a.n * b.d - b.n * a.d, a.d * b.d) ELSE NaN

FMul(a, b) == IF IsNum(a) /\ IsNum(b) THEN Rat(a.n * b.n, a.d * b.d) ELSE NaN

\* Every division of the program is guarded against a zero divisor.
FDiv(a, b) == IF IsNum(a) /\ IsNum(b) /\ b.n # 0 THEN Rat(a.n * b.d, a.d * b.n) ELSE NaN

FLess(a, b) == IsNum(a) /\ IsNum(b) /\ a.n * b.d < b.n * a.d

FGreater(a, b) == FLess(b, a)

RECURSIVE Pow10(_)
Pow10(e) == IF e = 0 THEN 1 ELSE 10 * Pow10(e - 1)

\* round(x, digits): to the nearest multiple of 10^-digits, ties to even.
Round(x, digits) ==
    IF ~IsNum(x) THEN x
    ELSE LET p == Pow10(digits)
             q == (x.n * p) \div x.d
             r == (x.n * p) - q * x.d
             up == 2 * r > x.d \/ (2 * r = x.d /\ q % 2 = 1)
         IN Rat(IF up THEN q + 1 ELSE q, p)

----------------------------------------------------------------------------
\* Helper functions

\* A raw field value of a message: a number, None, or something float() rejects.
Bad == [k |-> "bad", n |-> 0, d |-> 1]

to_float(v) == IF v.k \in {"num", "nan"} THEN v ELSE None

\* 180 / 2^31 in lowest terms.
SEMICIRCLES_TO_DEGREES == Rat(45, 536870912)

semicircles_to_deg(val) ==
    LET v == to_float(val)
    IN IF v = None THEN None ELSE FMul(v, SEMICIRCLES_TO_DEGREES)

\* The coordinate values of the input files considered, in semicircles
\* (0 and 2^22), and the same in degrees (0 and 45/128).
RawCoords == {0, 4194304}

Deg0 == Rat(0, 1)

\* The great-circle formula (lines 54-58) on the model's grid {Deg0, Deg1}^2,
\* tabulated to the nearest metre.
GreatCircle(lat1, lon1, lat2, lon2) ==
    CASE lat1 = lat2 /\ lon1 = lon2 -> Num(0)
      [] lat1 # lat2 /\ lon1 # lon2 -> Num(55284)
      [] lat1 # lat2 /\ lon1 = lon2 -> Num(39092)
      [] lat1 = lat2 /\ lon1 # lon2 /\ lat1 = Deg0 -> Num(39092)
      [] OTHER -> Num(39091)

\* `None in (...)` compares with None only: a NaN passes the test, and the
\* trigonometry then yields NaN.
haversine_m(lat1, lon1, lat2, lon2) ==
    IF None \in {lat1, lon1, lat2, lon2} THEN Num(0)
    ELSE IF \E c \in {lat1, lon1, lat2, lon2} : c.k = "nan" THEN NaN
    ELSE GreatCircle(lat1, lon1, lat2, lon2)

----------------------------------------------------------------------------
\* pandas Series, as sequences of cells

Idx(s) == 1..Len(s)

NotnaCount(s) == Cardinality({i \in Idx(s) : IsNum(s[i])})

IsnaCount(s) == Cardinality({i \in Idx(s) : IsNa(s[i])})

IsnaAll(s) == \A i \in Idx(s) : IsNa(s[i])

NotnaAny(s) == \E i \in Idx(s) : IsNum(s[i])

\* An all-None column keeps dtype object (its cells stay None); any other
\* column is float64 and its missing cells are NaN.
IsObject(s) == Len(s) > 0 /\ \A i \in Idx(s) : s[i] = None

AsColumn(s) ==
    IF \A i \in Idx(s) : s[i] = None THEN s
    ELSE [i \in Idx(s) |-> IF s[i] = None THEN NaN ELSE s[i]]

Fillna(s, v) == [i \in Idx(s) |-> IF IsNa(s[i]) THEN v ELSE s[i]]

\* Series.diff() of a float column; the first entry is NaN.
Diff(s) == [i \in Idx(s) |-> IF i = 1 THEN NaN ELSE FSub(s[i], s[i - 1])]

\* Series.diff().dt.total_seconds() of the timestamp column.
DiffSeconds(ts) == [i \in Idx(ts) |-> IF i = 1 THEN NaN ELSE Num(ts[i] - ts[i - 1])]

RECURSIVE SumFrom(_, _)
SumFrom(s, i) == IF i > Len(s) THEN Num(0) ELSE FAdd(s[i], SumFrom(s, i + 1))

\* Series.sum(skipna=True)
Sum(s) == SumFrom(Fillna(s, Num(0)), 1)

\* Series.max(skipna=True): NaN when no value is present.
Max(s) ==
    IF ~NotnaAny(s) THEN NaN
    ELSE CHOOSE m \in {s[i] : i \in {j \in Idx(s) : IsNum(s[j])}} :
             \A i \in Idx(s) : IsNum(s[i]) => ~FLess(m, s[i])

\* Series.mean(): over the present values.
Mean(s) == IF ~NotnaAny(s) THEN NaN ELSE FDiv(Sum(s), Num(NotnaCount(s)))

----------------------------------------------------------------------------
\* pandas DataFrame: the set of its column names and one sequence per column.
\* DataFrame.from_records([]) has no rows and no columns.

Columns ==
    {"timestamp", "latitude_deg", "longitude_deg", "altitude_m", "speed_m_s",
     "distance_m", "heart_rate_bpm", "cadence_rpm", "power_w", "temperature_c"}

EmptyDF ==
    [columns |-> {}, timestamp |-> <<>>, latitude_deg |-> <<>>, longitude_deg |-> <<>>,
     altitude_m |-> <<>>, speed_m_s |-> <<>>, distance_m |-> <<>>,
     heart_rate_bpm |-> <<>>, cadence_rpm |-> <<>>, power_w |-> <<>>,
     temperature_c |-> <<>>]

DfEmpty(df) == Len(df.timestamp) = 0

\* Lines 72-90: one rec per message, then the frame.
FromRecords(msgs) ==
    IF Len(msgs) = 0 THEN EmptyDF
    ELSE LET I == 1..Len(msgs) IN
         [columns |-> Columns,
          timestamp |-> [i \in I |-> msgs[i].timestamp],
          latitude_deg |-> AsColumn([i \in I |-> semicircles_to_deg(msgs[i].position_lat)]),
          longitude_deg |-> AsColumn([i \in I |-> semicircles_to_deg(msgs[i].position_long)]),
          altitude_m |-> AsColumn([i \in I |-> to_float(msgs[i].altitude)]),
          speed_m_s |-> AsColumn([i \in I |-> to_float(msgs[i].speed)]),
          distance_m |-> AsColumn([i \in I |-> to_float(msgs[i].distance)]),
          heart_rate_bpm |-> AsColumn([i \in I |-> to_float(msgs[i].heart_rate)]),
          cadence_rpm |-> AsColumn([i \in I |-> to_float(msgs[i].cadence)]),
          power_w |-> AsColumn([i \in I |-> to_float(msgs[i].power)]),
          temperature_c |-> AsColumn([i \in I |-> to_float(msgs[i].temperature)])]

\* The rows left in file order or in any other order: the sort forgotten.
AnyOrder(ts) == Permutations(Idx(ts))

\* sort_values("timestamp"): the row orders that are ascending in timestamp.
\* The default sort is not stable, so rows of equal timestamp may come in
\* either order.
SortOrders(ts) ==
    {p \in Permutations(Idx(ts)) :
        \A i \in Idx(ts) : i > 1 => ts[p[i - 1]] <= ts[p[i]]}

Take(s, p) == [i \in Idx(s) |-> s[p[i]]]

\* sort_values(...).reset_index(drop=True) under the row order p.
SortValues(df, p) ==
    [columns |-> df.columns,
     timestamp |-> Take(df.timestamp, p),
     latitude_deg |-> Take(df.latitude_deg, p),
     longitude_deg |-> Take(df.longitude_deg, p),
     altitude_m |-> Take(df.altitude_m, p),
     speed_m_s |-> Take(df.speed_m_s, p),
     distance_m |-> Take(df.distance_m, p),
     heart_rate_bpm |-> Take(df.heart_rate_bpm, p),
     cadence_rpm |-> Take(df.cadence_rpm, p),
     power_w |-> Take(df.power_w, p),
     temperature_c |-> Take(df.temperature_c, p)]

\* Line 94: all distances missing, or their maximum is 0.
DistanceMissing(dist) == IsnaAll(dist) \/ Or(to_float(Max(dist)), Num(0)) = Num(0)

\* Lines 95-99: dists[0] = 0.0, dists[i] = dists[i-1] + (d or 0.0).
RECURSIVE ReconstructDistance(_, _, _)
ReconstructDistance(lat, lon, i) ==
    IF i = 1 THEN <<Num(0)>>
    ELSE LET prev == ReconstructDistance(lat, lon, i - 1)
             d == haversine_m(lat[i - 1], lon[i - 1], lat[i], lon[i])
         IN Append(prev, FAdd(prev[i - 1], Or(d, Num(0))))

\* The trigger with >= for >: half of the speeds missing is enough.
SpeedMissingAtHalf(speed) == 2 * IsnaCount(speed) >= Len(speed)

\* Line 102: isna().mean() > 0.5
SpeedMissing(speed) == 2 * IsnaCount(speed) > Len(speed)

\* Lines 103-106
ReconstructSpeed(ts, dist) ==
    LET dt == Fillna(DiffSeconds(ts), Num(0))
        ds == Fillna(Diff(dist), Num(0))
        dt_safe == [i \in Idx(dt) |-> IF dt[i] = Num(0) THEN NaN ELSE dt[i]]
    IN Fillna([i \in Idx(ts) |-> FDiv(ds[i], dt_safe[i])], Num(0))

\* Line 109: the altitude gap-fill needs more than this many altitude values.
MinAltitudes == 5

\* Line 110: interpolate(limit_direction="both"), linear over the row position;
\* leading and trailing gaps take the nearest value.
Interpolate(s) ==
    [i \in Idx(s) |->
        IF IsNum(s[i]) THEN s[i]
        ELSE LET before == {j \in Idx(s) : j < i /\ IsNum(s[j])}
                 after == {j \in Idx(s) : j > i /\ IsNum(s[j])}
                 lo == CHOOSE j \in before : \A h \in before : h <= j
                 hi == CHOOSE j \in after : \A h \in after : j <= h
             IN IF before = {} THEN s[hi]
                ELSE IF after = {} THEN s[lo]
                ELSE FAdd(s[lo], FDiv(FMul(FSub(s[hi], s[lo]), Num(i - lo)), Num(hi - lo)))]

\* parse_fit_records, with p the row order the sort produces.
parse_fit_records(msgs, p) ==
    LET df0 == FromRecords(msgs) IN
    IF DfEmpty(df0) THEN df0
    ELSE LET df1 == SortValues(df0, p)
             dist == IF DistanceMissing(df1.distance_m)
                     THEN ReconstructDistance(df1.latitude_deg, df1.longitude_deg,
                                              Len(df1.timestamp))
                     ELSE df1.distance_m
             speed == IF SpeedMissing(df1.speed_m_s)
                      THEN ReconstructSpeed(df1.timestamp, dist)
                      ELSE df1.speed_m_s
             alt == IF NotnaCount(df1.altitude_m) > MinAltitudes
                    THEN Interpolate(df1.altitude_m)
                    ELSE df1.altitude_m
         IN [df1 EXCEPT !.distance_m = dist, !.speed_m_s = speed, !.altitude_m = alt]

----------------------------------------------------------------------------
\* Work, elevation gain, metrics

\* Lines 61-65.  Series.diff() subtracts cell from cell: on an object column
\* (every altitude None) of two or more rows that is None - None, a TypeError.
PositiveGainRaises(series) == IsObject(series) /\ Len(series) >= 2

positive_gain(series) ==
    IF Len(series) = 0 THEN Num(0)
    ELSE LET diffs == Diff(series)
             pos == SelectSeq(diffs, LAMBDA x : FGreater(x, Num(0)))
         IN Or(Sum(pos), Num(0))

\* The integration without its minimum of two power values.
integrate_work_always(df) ==
    IF DfEmpty(df) THEN Num(0)
    ELSE LET power == Fillna(df.power_w, Num(0))
             dt == Fillna(DiffSeconds(df.timestamp), Num(0))
             p_prev == [i \in Idx(power) |-> IF i = 1 THEN Num(0) ELSE power[i - 1]]
             work == [i \in Idx(power) |->
                         FMul(FDiv(FAdd(power[i], p_prev[i]), Num(2)), dt[i])]
         IN Sum(work)

\* Lines 124-131
integrate_work_joules(df) ==
    IF DfEmpty(df) \/ NotnaCount(df.power_w) < 2 THEN Num(0)
    ELSE LET power == Fillna(df.power_w, Num(0))
             dt == Fillna(DiffSeconds(df.timestamp), Num(0))
             p_prev == [i \in Idx(power) |-> IF i = 1 THEN Num(0) ELSE power[i - 1]]
             work == [i \in Idx(power) |->
                         FMul(FDiv(FAdd(power[i], p_prev[i]), Num(2)), dt[i])]
         IN Sum(work)

\* Lines 146-147: the timestamps of the rows over 0.5 m/s, their differences, summed.
MovingTime(df) ==
    LET speed == Fillna(df.speed_m_s, Num(0))
        moving == {i \in Idx(speed) : FGreater(speed[i], Rat(1, 2))}
        RECURSIVE Pick(_)
        Pick(i) == IF i > Len(speed) THEN <<>>
                   ELSE (IF i \in moving THEN <<df.timestamp[i]>> ELSE <<>>) \o Pick(i + 1)
    IN Sum(Fillna(DiffSeconds(Pick(1)), Num(0)))

LOCAL_TZ == "Europe/Berlin"

\* tz_convert(LOCAL_TZ).strftime(...): the same instant, written in the zone.
LocalIso(ts) == [instant |-> ts, zone |-> LOCAL_TZ]

MinOf(ts) == CHOOSE m \in {ts[i] : i \in Idx(ts)} : \A i \in Idx(ts) : m <= ts[i]

MaxOf(ts) == CHOOSE m \in {ts[i] : i \in Idx(ts)} : \A i \in Idx(ts) : m >= ts[i]

\* `round(x, digits) if x is not None else None`
RoundOpt(x, digits) == IF x = None THEN None ELSE Round(x, digits)

\* `round(x, digits) if x else None`
RoundIf(x, digits) == IF Truthy(x) THEN Round(x, digits) ELSE None

\* Line 140
NoData == [note |-> "Keine 'record'-Daten gefunden."]

\* The motor energy with the efficiency taken as a fraction, not a percentage.
MotorEnergyNoPercent(wall_energy_kWh, eff_wall2batt_pct) ==
    IF Truthy(wall_energy_kWh) /\ Truthy(eff_wall2batt_pct)
    THEN FMul(FMul(wall_energy_kWh, Num(1000)), eff_wall2batt_pct)
    ELSE None

\* Lines 167-170
MotorEnergy(wall_energy_kWh, eff_wall2batt_pct) ==
    IF Truthy(wall_energy_kWh) /\ Truthy(eff_wall2batt_pct)
    THEN FMul(FMul(wall_energy_kWh, Num(1000)), FDiv(eff_wall2batt_pct, Num(100)))
    ELSE None

\* Lines 177-184
CaloriesFood(calories_mech, muscle_eff_pct) ==
    IF Truthy(muscle_eff_pct)
    THEN FDiv(calories_mech, FDiv(muscle_eff_pct, Num(100)))
    ELSE None

CaloriesRange(calories_mech, muscle_eff_pct) ==
    IF Truthy(muscle_eff_pct)
    THEN [r \in {"20%", "25%"} |->
             Round(FDiv(calories_mech, IF r = "20%" THEN Rat(20, 100) ELSE Rat(25, 100)), 1)]
    ELSE None

\* compute_metrics raises where positive_gain does (line 153).
ComputeRaises(df) == ~DfEmpty(df) /\ PositiveGainRaises(df.altitude_m)

\* Lines 135-222
compute_metrics(df, wall_energy_kWh, eff_wall2batt_pct, muscle_eff_pct) ==
    IF DfEmpty(df) THEN NoData
    ELSE
    LET start_ts_utc == MinOf(df.timestamp)
        end_ts_utc == MaxOf(df.timestamp)
        elapsed_s == Num(end_ts_utc - start_ts_utc)
        moving_s == MovingTime(df)
        total_dist_m == Or(Max(df.distance_m), Num(0))
        avg_speed_m_s == IF FGreater(elapsed_s, Num(0))
                         THEN FDiv(total_dist_m, elapsed_s) ELSE Num(0)
        max_speed_m_s == Or(Max(df.speed_m_s), Num(0))
        ascent_m == positive_gain(df.altitude_m)
        hr_avg == IF NotnaAny(df.heart_rate_bpm) THEN Mean(df.heart_rate_bpm) ELSE None
        hr_max == IF NotnaAny(df.heart_rate_bpm) THEN Max(df.heart_rate_bpm) ELSE None
        cad_avg == IF NotnaAny(df.cadence_rpm) THEN Mean(df.cadence_rpm) ELSE None
        cad_max == IF NotnaAny(df.cadence_rpm) THEN Max(df.cadence_rpm) ELSE None
        pwr_avg == IF NotnaAny(df.power_w) THEN Mean(df.power_w) ELSE None
        pwr_max == IF NotnaAny(df.power_w) THEN Max(df.power_w) ELSE None
        temp_avg == IF NotnaAny(df.temperature_c) THEN Mean(df.temperature_c) ELSE None
        rider_work_J == integrate_work_joules(df)
        rider_work_Wh == FDiv(rider_work_J, Num(3600))
        motor_energy_Wh == MotorEnergy(wall_energy_kWh, eff_wall2batt_pct)
        total_work_Wh == FAdd(rider_work_Wh, Or(motor_energy_Wh, Num(0)))
        total_work_J == FMul(total_work_Wh, Num(3600))
        calories_mech == FDiv(rider_work_J, Num(4184))
        calories_food == CaloriesFood(calories_mech, muscle_eff_pct)
        calories_range == CaloriesRange(calories_mech, muscle_eff_pct)
    IN [start_time |-> LocalIso(start_ts_utc),
        end_time |-> LocalIso(end_ts_utc),
        timezone |-> LOCAL_TZ,
        elapsed_time_s |-> Round(elapsed_s, 1),
        moving_time_s |-> Round(moving_s, 1),
        distance_m |-> Round(total_dist_m, 1),
        avg_speed_kmh |-> Round(FMul(avg_speed_m_s, Rat(36, 10)), 2),
        max_speed_kmh |-> Round(FMul(max_speed_m_s, Rat(36, 10)), 2),
        elevation_gain_m |-> Round(ascent_m, 1),
        avg_cadence_rpm |-> RoundOpt(cad_avg, 1),
        max_cadence_rpm |-> RoundOpt(cad_max, 1),
        avg_power_w |-> RoundOpt(pwr_avg, 1),
        max_power_w |-> RoundOpt(pwr_max, 1),
        rider_work_Wh |-> Round(rider_work_Wh, 2),
        rider_work_J |-> Round(rider_work_J, 1),
        motor_energy_Wh |-> RoundIf(motor_energy_Wh, 2),
        total_work_Wh |-> Round(total_work_Wh, 2),
        total_work_J |-> Round(total_work_J, 1),
        calories_mechanical_kcal |-> Round(calories_mech, 1),
        calories_food_est_kcal |-> RoundIf(calories_food, 1),
        calories_food_est_range_kcal |-> calories_range,
        wall_energy_kWh_input |-> wall_energy_kWh,
        wall2battery_eff_pct_input |-> eff_wall2batt_pct,
        muscle_eff_pct_input |-> muscle_eff_pct]

----------------------------------------------------------------------------
\* Export

\* Line 229 reads df_out["timestamp"]: a KeyError on a frame without columns.
ExportCsvRaises(df) == "timestamp" \notin df.columns

\* Lines 226-236: the table written, column by column.
CsvTable(df) ==
    [timestamp_iso |-> [i \in Idx(df.timestamp) |-> LocalIso(df.timestamp[i])],
     latitude_deg |-> df.latitude_deg, longitude_deg |-> df.longitude_deg,
     altitude_m |-> df.altitude_m, speed_m_s |-> df.speed_m_s,
     distance_m |-> df.distance_m, heart_rate_bpm |-> df.heart_rate_bpm,
     cadence_rpm |-> df.cadence_rpm, power_w |-> df.power_w,
     temperature_c |-> df.temperature_c]

----------------------------------------------------------------------------
\* main()

VARIABLES
    pc,        \* where main() is: "start", "parsed", "computed", "csv", "done",
               \* "exit1", "exit2" (sys.exit) or "raised" (an uncaught exception)
    fit_file,  \* "none": no file chosen; "missing": the path does not exist; "present"
    msgs,      \* the record messages of the file, in file order
    wall_energy_kWh, eff_pct, muscle_eff,   \* the three numeric inputs
    df,        \* the frame parse_fit_records returned
    summary,   \* what compute_metrics returned
    files,     \* the output files written, by suffix
    error      \* the exception that ended the run

vars == <<pc, fit_file, msgs, wall_energy_kWh, eff_pct, muscle_eff, df, summary, files, error>>

inputs == <<fit_file, msgs, wall_energy_kWh, eff_pct, muscle_eff>>

NoFiles == [s \in {} |-> None]

\* Lines 282-284: no input, "Abgebrochen.", exit status 1.
Abort ==
    /\ pc = "start" /\ fit_file = "none"
    /\ pc' = "exit1"
    /\ UNCHANGED <<inputs, df, summary, files, error>>

\* Lines 286-288: exit status 2.
NotFound ==
    /\ pc = "start" /\ fit_file = "missing"
    /\ pc' = "exit2"
    /\ UNCHANGED <<inputs, df, summary, files, error>>

\* Line 293
ParseFitRecords ==
    /\ pc = "start" /\ fit_file = "present"
    /\ \E p \in SortOrders(FromRecords(msgs).timestamp) :
           df' = parse_fit_records(msgs, p)
    /\ pc' = "parsed"
    /\ UNCHANGED <<inputs, summary, files, error>>

\* Lines 295-298
ComputeMetrics ==
    /\ pc = "parsed"
    /\ IF ComputeRaises(df)
       THEN pc' = "raised" /\ error' = "TypeError" /\ UNCHANGED summary
       ELSE /\ summary' = compute_metrics(df, wall_energy_kWh, eff_pct, muscle_eff)
            /\ pc' = "computed" /\ UNCHANGED error
    /\ UNCHANGED <<inputs, df, files>>

\* Line 300
ExportTimeseriesCsv ==
    /\ pc = "computed"
    /\ IF ExportCsvRaises(df)
       THEN pc' = "raised" /\ error' = "KeyError" /\ UNCHANGED files
       ELSE /\ files' = (".csv" :> CsvTable(df))
            /\ pc' = "csv" /\ UNCHANGED error
    /\ UNCHANGED <<inputs, df, summary>>

\* Lines 301, 239-243
ExportSummaryJson ==
    /\ pc = "csv"
    /\ files' = files @@ (".json" :> summary)
    /\ pc' = "done"
    /\ UNCHANGED <<inputs, df, summary, error>>

Next ==
    \/ Abort
    \/ NotFound
    \/ ParseFitRecords
    \/ ComputeMetrics
    \/ ExportTimeseriesCsv
    \/ ExportSummaryJson

----------------------------------------------------------------------------
\* Input files and inputs considered

Msg(ts, lat, lon, alt, speed, dist, hr, cad, pwr, temp) ==
    [timestamp |-> ts, position_lat |-> lat, position_long |-> lon, altitude |-> alt,
     speed |-> speed, distance |-> dist, heart_rate |-> hr, cadence |-> cad,
     power |-> pwr, temperature |-> temp]

SeqsUpTo(S, n) == UNION {[1..k -> S] : k \in 0..n}

RawCoordValues == {None, Bad} \cup {Num(c) : c \in RawCoords}

\* The command line's defaults (lines 271-273).
DefaultWall == Rat(1, 2)

DefaultEff == Rat(165, 2)

DefaultMuscle == Num(24)

\* The state main() starts in, for a file holding a list of messages from M and
\* inputs from W, E, U.  Without a file there are no messages.
Start(M, W, E, U) ==
    /\ pc = "start"
    /\ fit_file \in {"none", "missing", "present"}
    /\ msgs \in IF fit_file = "present" THEN SeqsUpTo(M, MaxLen) ELSE {<<>>}
    /\ wall_energy_kWh \in W /\ eff_pct \in E /\ muscle_eff \in U
    /\ df = None /\ summary = None /\ files = NoFiles /\ error = "none"

\* Files whose messages differ in heart rate and temperature; the muscular
\* efficiency is given, 0 or left out.
SummaryMsgs ==
    {Msg(t, None, None, Num(100), Num(3), None, hr, Num(80), Num(200), temp) :
        t \in {0, 10}, hr \in {None, Num(120), Num(150)}, temp \in {None, Num(20)}}

Init == Start(SummaryMsgs, {DefaultWall}, {DefaultEff}, {None, Num(0), DefaultMuscle})

Spec == Init /\ [][Next]_vars

\* Files that differ in power; the altitude falls along the ride.
WorkMsgs ==
    {Msg(t, None, None, Num(100 - (t \div 2)), Num(3), None, None, None, pw, None) :
        t \in {0, 10, 25}, pw \in {None, Num(0), Num(200), Num(-50)}}

InitWork == Start(WorkMsgs, {DefaultWall}, {DefaultEff}, {DefaultMuscle})

SpecWork == InitWork /\ [][Next]_vars

\* Files that differ in speed and distance, without coordinates.
SpeedMsgs ==
    {Msg(t, None, None, Num(100), sp, ds, None, None, None, None) :
        t \in {0, 10}, sp \in {None, Num(1)}, ds \in {None, Num(20), Num(50)}}

InitSpeed == Start(SpeedMsgs, {DefaultWall}, {DefaultEff}, {DefaultMuscle})

SpecSpeed == InitSpeed /\ [][Next]_vars

\* Files without distance and speed, whose coordinates are given, missing or unreadable.
GeoMsgs ==
    {Msg(t, lat, lon, Num(100), None, None, None, None, None, None) :
        t \in {0, 10}, lat \in RawCoordValues, lon \in RawCoordValues \ {Bad}}

InitGeo == Start(GeoMsgs, {DefaultWall}, {DefaultEff}, {DefaultMuscle})

SpecGeo == InitGeo /\ [][Next]_vars

\* Files that differ in altitude.
AltMsgs ==
    {Msg(t, None, None, alt, Num(3), None, None, None, None, None) :
        t \in {0, 10, 20}, alt \in {None, Num(95), Num(100), Num(105)}}

InitAlt == Start(AltMsgs, {DefaultWall}, {DefaultEff}, {DefaultMuscle})

SpecAlt == InitAlt /\ [][Next]_vars

\* Files that differ in speed, around the 0.5 m/s threshold.
MovingMsgs ==
    {Msg(t, None, None, Num(100), sp, None, None, None, None, None) :
        t \in {0, 10, 20}, sp \in {None, Num(0), Rat(1, 2), Num(1)}}

InitMoving == Start(MovingMsgs, {DefaultWall}, {DefaultEff}, {DefaultMuscle})

SpecMoving == InitMoving /\ [][Next]_vars

\* Wall energy and wall-to-battery efficiency given, 0 or left out.
EnergyMsgs ==
    {Msg(t, None, None, Num(100), Num(3), None, None, None, pw, None) :
        t \in {0, 10}, pw \in {Num(100), Num(200)}}

InitEnergy ==
    Start(EnergyMsgs, {None, Num(0), Rat(1, 1000), DefaultWall},
          {None, Num(0), DefaultEff, Num(100)}, {DefaultMuscle})

SpecEnergy == InitEnergy /\ [][Next]_vars

----------------------------------------------------------------------------
\* Properties

\* parse_fit_records has returned a frame.
Parsed == pc \in {"parsed", "computed", "csv", "done", "raised"}

\* compute_metrics has returned a summary.
Computed == pc \in {"computed", "csv", "done"} \/ (pc = "raised" /\ error = "KeyError")

NonEmpty == Len(msgs) > 0

\* C1: with the muscular efficiency left out, a non-empty series gives a summary
\* whose calories_food_est_kcal is absent and whose calories_food_est_range_kcal
\* still holds its "20%" and "25%" entries.
C1_RangeWithoutEfficiency ==
    (Computed /\ NonEmpty /\ muscle_eff = None) =>
        /\ summary.calories_food_est_kcal = None
        /\ summary.calories_food_est_range_kcal # None
        /\ DOMAIN summary.calories_food_est_range_kcal = {"20%", "25%"}

\* C4: a run over an existing file without record messages raises nothing, and
\* ends with the no-data record computed and both output files written.
C4_EmptyFileCompletes ==
    (fit_file = "present" /\ ~NonEmpty) =>
        /\ pc # "raised"
        /\ Computed => "note" \in DOMAIN summary
        /\ pc = "done" => DOMAIN files = {".csv", ".json"}

\* The fields of a summary that hold a number or null.
NumericFields(sm) ==
    DOMAIN sm \ {"note", "start_time", "end_time", "timezone", "calories_food_est_range_kcal"}

\* C5: the summary of a non-empty series has a field holding the mean heart
\* rate, one holding the maximum heart rate and one holding the mean
\* temperature.
C5_HeartRateAndTemperatureFields ==
    (Computed /\ NonEmpty) =>
        /\ NotnaAny(df.heart_rate_bpm) =>
              /\ \E f \in NumericFields(summary) :
                     summary[f] \in {Mean(df.heart_rate_bpm), Round(Mean(df.heart_rate_bpm), 1)}
              /\ \E f \in NumericFields(summary) : summary[f] = Max(df.heart_rate_bpm)
        /\ NotnaAny(df.temperature_c) =>
              \E f \in NumericFields(summary) :
                  summary[f] \in {Mean(df.temperature_c), Round(Mean(df.temperature_c), 1)}

\* The trapezoidal rule over every consecutive pair of rows, an absent power
\* counted as 0.
AsZero(c) == IF IsNum(c) THEN c ELSE Num(0)

RECURSIVE TrapezoidFrom(_, _, _)
TrapezoidFrom(ts, pw, i) ==
    IF i > Len(ts) THEN Num(0)
    ELSE FAdd(FMul(FDiv(FAdd(AsZero(pw[i]), AsZero(pw[i - 1])), Num(2)),
                   Num(ts[i] - ts[i - 1])),
              TrapezoidFrom(ts, pw, i + 1))

Trapezoid(d) == TrapezoidFrom(d.timestamp, d.power_w, 2)

\* The file of the scenario: (t=0s, 100 m, no power) and (t=10s, 95 m, 200 W).
IsScenario ==
    /\ Len(msgs) = 2
    /\ \E i, j \in {1, 2} :
          /\ msgs[i].timestamp = 0 /\ msgs[i].altitude = Num(100) /\ msgs[i].power = None
          /\ msgs[j].timestamp = 10 /\ msgs[j].altitude = Num(95)
          /\ msgs[j].power = Num(200)

\* C2 as stated: the scenario's summary reports elevation gain 0 and rider work
\* 1000 J, and the rider work of every non-empty series is the trapezoidal sum
\* over its consecutive rows with an absent power counted as 0.
C2_ScenarioWork ==
    /\ (Computed /\ IsScenario) =>
          /\ summary.elevation_gain_m = Num(0)
          /\ summary.rider_work_J = Num(1000)
    /\ (Computed /\ NonEmpty) => summary.rider_work_J = Round(Trapezoid(df), 1)

\* C2 as amended: the scenario's summary reports elevation gain 0 and rider work
\* 0 J, since only one power value is present; the rider work of a non-empty
\* series is the trapezoidal sum (absent power counted as 0) when at least two
\* power values are present, and 0 otherwise.
C2_ScenarioWorkAmended ==
    /\ (Computed /\ IsScenario) =>
          /\ summary.elevation_gain_m = Num(0)
          /\ summary.rider_work_J = Num(0)
    /\ (Computed /\ NonEmpty) =>
          summary.rider_work_J =
              IF NotnaCount(df.power_w) >= 2 THEN Round(Trapezoid(df), 1) ELSE Num(0)

C2_Witness ==
    /\ pc = "done" /\ IsScenario
    /\ summary.rider_work_J = Num(0) /\ Trapezoid(df) = Num(1000)

\* C8: after parse_fit_records, a non-empty series whose present power values
\* are all non-negative has non-negative work.
C8_WorkNonNegative ==
    (Parsed /\ NonEmpty
       /\ \A i \in Idx(df.power_w) : IsNum(df.power_w[i]) => ~FLess(df.power_w[i], Num(0))) =>
        /\ IsNum(integrate_work_joules(df))
        /\ ~FLess(integrate_work_joules(df), Num(0))
        /\ Computed => ~FLess(summary.rider_work_J, Num(0))

C8_Witness ==
    /\ pc = "computed" /\ Len(msgs) = 3
    /\ msgs[1].timestamp > msgs[2].timestamp
    /\ \A i \in Idx(df.power_w) : IsNum(df.power_w[i]) => ~FLess(df.power_w[i], Num(0))
    /\ FGreater(summary.rider_work_J, Num(0))

\* The moving time of C3: over the pairs of consecutive rows, the time from a
\* row over 0.5 m/s to the next row.
RECURSIVE ClaimedMovingFrom(_, _)
ClaimedMovingFrom(d, i) ==
    IF i >= Len(d.timestamp) THEN Num(0)
    ELSE FAdd(IF FGreater(d.speed_m_s[i], Rat(1, 2))
              THEN Num(d.timestamp[i + 1] - d.timestamp[i]) ELSE Num(0),
              ClaimedMovingFrom(d, i + 1))

\* C3: the moving time of a non-empty series is the sum of timestamp[i+1] -
\* timestamp[i] over the consecutive pairs whose earlier row is over 0.5 m/s.
C3_MovingTime ==
    (Computed /\ NonEmpty) => summary.moving_time_s = Round(ClaimedMovingFrom(df, 1), 1)

\* A coordinate of row i is missing.
CoordMissing(d, i) == IsNa(d.latitude_deg[i]) \/ IsNa(d.longitude_deg[i])

\* C6: when every input distance is absent, the distance column of a non-empty
\* series starts at 0, has no absent entry and never decreases, and a step
\* with a missing coordinate adds exactly 0.
C6_ReconstructedDistance ==
    (Parsed /\ NonEmpty /\ \A i \in Idx(msgs) : to_float(msgs[i].distance) = None) =>
        /\ df.distance_m[1] = Num(0)
        /\ \A i \in Idx(df.distance_m) : IsNum(df.distance_m[i])
        /\ \A i \in Idx(df.distance_m) :
              i > 1 => /\ ~FLess(df.distance_m[i], df.distance_m[i - 1])
                       /\ (CoordMissing(df, i) \/ CoordMissing(df, i - 1)) =>
                              df.distance_m[i] = df.distance_m[i - 1]

\* More than half of the speed values of the file are absent.
InputSpeedMostlyAbsent ==
    2 * Cardinality({i \in Idx(msgs) : to_float(msgs[i].speed) = None}) > Len(msgs)

SameValue(a, b) == (IsNa(a) /\ IsNa(b)) \/ a = b

\* The speed column holds the file's speed values, row by row.
SpeedAsRead ==
    \E p \in Permutations(Idx(msgs)) :
        \A i \in Idx(msgs) :
            /\ df.timestamp[i] = msgs[p[i]].timestamp
            /\ SameValue(df.speed_m_s[i], to_float(msgs[p[i]].speed))

\* C7: when more than half of the input speeds are absent, every speed after
\* parse_fit_records is a number: 0 for the first row and for a row with its
\* predecessor's timestamp, (distance delta)/(time delta) for any other row
\* (0 where one of the two distances is absent); otherwise the speed column is
\* left as read.
C7_ReconstructedSpeed ==
    (Parsed /\ NonEmpty) =>
        IF InputSpeedMostlyAbsent
        THEN \A i \in Idx(df.speed_m_s) :
                /\ IsNum(df.speed_m_s[i])
                /\ (i = 1 \/ (i > 1 /\ df.timestamp[i] = df.timestamp[i - 1])) =>
                       df.speed_m_s[i] = Num(0)
                /\ (i > 1 /\ df.timestamp[i] # df.timestamp[i - 1]) =>
                       df.speed_m_s[i] =
                           IF IsNum(df.distance_m[i]) /\ IsNum(df.distance_m[i - 1])
                           THEN Rat(df.distance_m[i].n * df.distance_m[i - 1].d
                                      - df.distance_m[i - 1].n * df.distance_m[i].d,
                                    df.distance_m[i].d * df.distance_m[i - 1].d
                                      * (df.timestamp[i] - df.timestamp[i - 1]))
                           ELSE Num(0)
        ELSE SpeedAsRead

C7_Witness ==
    /\ pc = "parsed" /\ Len(msgs) = 3 /\ InputSpeedMostlyAbsent
    /\ df.timestamp[2] = df.timestamp[1] /\ df.speed_m_s[2] = Num(0)
    /\ df.distance_m[2] # df.distance_m[1]
    /\ df.speed_m_s[3] = Num(3)

\* An input that is supplied and not 0.
Supplied(c) == c # None /\ c # Num(0)

\* C9: the motor energy is wall_energy_kWh * 1000 * (eff_pct / 100) Wh when both
\* inputs are supplied and non-zero (0.5 kWh at 82.5 % is 412.5 Wh) and null
\* otherwise; the total work is the rider work plus the motor energy, a null
\* motor energy counted as 0.  Fields are rounded as the summary rounds them.
C9_MotorEnergy ==
    (Computed /\ NonEmpty) =>
        LET both == Supplied(wall_energy_kWh) /\ Supplied(eff_pct)
            motor == IF both
                     THEN Rat(wall_energy_kWh.n * 1000 * eff_pct.n,
                              wall_energy_kWh.d * eff_pct.d * 100)
                     ELSE Num(0)
            rider_J == Trapezoid(df)
        IN /\ summary.motor_energy_Wh = IF both THEN Round(motor, 2) ELSE None
           /\ (wall_energy_kWh = Rat(1, 2) /\ eff_pct = Rat(165, 2)) =>
                  summary.motor_energy_Wh = Rat(825, 2)
           /\ summary.total_work_Wh = Round(FAdd(FDiv(rider_J, Num(3600)), motor), 2)
           /\ summary.total_work_J = Round(FAdd(rider_J, FMul(motor, Num(3600))), 1)

C9_Witness ==
    /\ pc = "done" /\ Len(msgs) = 2
    /\ wall_energy_kWh = Rat(1, 2) /\ eff_pct = Rat(165, 2)
    /\ summary.motor_energy_Wh = Rat(825, 2)
    /\ summary.rider_work_J = Num(1500)
    /\ summary.total_work_J = Num(1486500)

\* The sum of the strictly positive steps between consecutive altitude values.
RECURSIVE PositiveSteps(_, _)
PositiveSteps(alt, i) ==
    IF i > Len(alt) THEN Num(0)
    ELSE FAdd(IF FGreater(alt[i], alt[i - 1]) THEN FSub(alt[i], alt[i - 1]) ELSE Num(0),
              PositiveSteps(alt, i + 1))

\* C10: for any altitude sequence of a non-empty series, compute_metrics
\* reports as elevation gain the sum of the strictly positive steps between
\* consecutive altitude values: 0 for a sequence that never rises.
C10_ElevationGain ==
    (Parsed /\ NonEmpty /\ pc # "parsed") =>
        /\ Computed
        /\ summary.elevation_gain_m = Round(PositiveSteps(df.altitude_m, 2), 1)
        /\ (\A i \in Idx(df.altitude_m) :
                i > 1 => ~FGreater(df.altitude_m[i], df.altitude_m[i - 1])) =>
               summary.elevation_gain_m = Num(0)

====
